---- MODULE Spec2Model ----
(***************************************************************************)
(* Model of the task orchestration engine of the media downloader bot:    *)
(* the request handler (producer), the download queue, the dispatcher     *)
(* loop queue_worker, the download jobs process_download_task bounded by  *)
(* download_semaphore, the Ledger rows of db_service and the shutdown     *)
(* path of MediaDownloaderBot.start.                                      *)
(*                                                                         *)
(* Scheduling is asyncio's (CPython 3.12 semantics; the source needs      *)
(* Python >= 3.8 for Path.unlink(missing_ok=True), where CancelledError   *)
(* is a BaseException and passes through "except Exception"): a task runs *)
(* from one suspension point to the next without interruption, and woken  *)
(* tasks run in the order they were woken (the loop's FIFO ready queue,   *)
(* variable ready).  Every action below is either an event of the         *)
(* environment (a message, a signal, a timer, the completion of network   *)
(* I/O) or the run of the task at the head of ready up to its next        *)
(* suspension.                                                             *)
(***************************************************************************)
EXTENDS Integers, Sequences, FiniteSets, TLC

\* ------------------------------------------------------------------ bounds
\* Download records created over one run.
MaxTasks == 2
\* "async with service" blocks entered over one run of the session model.
MaxBlocks == 3
\* Exceptions raised by the environment (mkdir, Fetcher, transport) over one run.
MaxFaults == 2

\* config.MAX_CONCURRENT_DOWNLOADS (an environment setting, default 5); the
\* model runs the bot configured with 1, so that a second task has to wait.
MAX_CONCURRENT_DOWNLOADS == 1

\* DownloadHistory.file_size is a nullable Integer column; NULL is written -1.
NULL_SIZE == -1

TaskIds == 1..MaxTasks

\* ------------------------------------------------------------ URL classifier
\* A url-shaped token of a message text: host and path after the scheme.
\* A url is the text of one whitespace-free token: its scheme ("" when it has
\* none), whether "www." follows, the host and the path segments after it.
TikTokUrl ==
  [scheme |-> "https://", www |-> FALSE, host |-> "tiktok.com", path |-> <<"@x", "video", "123">>]
YouTubeUrl ==
  [scheme |-> "https://", www |-> FALSE, host |-> "youtu.be", path |-> <<"abc">>]

\* The character classes of the patterns, on the path segments of the model:
\* \d+, [A-Za-z0-9]+ and [A-Za-z0-9_-]+ need a first character of the class
\* (no pattern is anchored at its end), [^/]+ a non-empty segment.
StartsDigit(seg) == seg \in {"123"}
StartsAlnum(seg) == seg \notin {"", "@x", "-ab"}
StartsWord(seg) == seg \notin {"", "@x"}
SegMatches(class, seg) ==
  CASE class = "@[^/]+" -> seg = "@x"
    [] class = "\\d+" -> StartsDigit(seg)
    [] class = "[A-Za-z0-9]+" -> StartsAlnum(seg)
    [] class = "[A-Za-z0-9_-]+" -> StartsWord(seg)
    [] class = "[^/]+" -> seg # ""
    [] class = "watch?v=[A-Za-z0-9_-]+" -> seg = "watch?v=abc"
    [] OTHER -> seg = class

\* re.IGNORECASE on the host names of the model.
casefold(host) == IF host = "TikTok.com" THEN "tiktok.com" ELSE host

\* One regular expression: whether it has (?:www\.)?, its hosts, whether ".+/"
\* precedes the path, and the classes of the path segments it requires.
Pattern(www, hosts, skip, path) == [www |-> www, hosts |-> hosts, skip |-> skip, path |-> path]

\* URLParser.PATTERNS in dictionary order.
PATTERNS ==
  << [platform |-> "tiktok", patterns |->
        << Pattern(TRUE, {"tiktok.com"}, FALSE, <<"@[^/]+", "video", "\\d+">>),
           Pattern(FALSE, {"vm.tiktok.com", "vt.tiktok.com"}, FALSE, <<"[A-Za-z0-9]+">>),
           Pattern(TRUE, {"tiktok.com"}, FALSE, <<"t", "[A-Za-z0-9]+">>) >>],
     [platform |-> "douyin", patterns |->
        << Pattern(TRUE, {"douyin.com"}, FALSE, <<"video", "\\d+">>),
           Pattern(FALSE, {"v.douyin.com"}, FALSE, <<"[A-Za-z0-9]+">>) >>],
     [platform |-> "instagram", patterns |->
        << Pattern(TRUE, {"instagram.com"}, FALSE, <<"p", "[A-Za-z0-9_-]+">>),
           Pattern(TRUE, {"instagram.com"}, FALSE, <<"reel", "[A-Za-z0-9_-]+">>),
           Pattern(TRUE, {"instagram.com"}, FALSE, <<"tv", "[A-Za-z0-9_-]+">>) >>],
     [platform |-> "youtube", patterns |->
        << Pattern(TRUE, {"youtube.com"}, FALSE, <<"watch?v=[A-Za-z0-9_-]+">>),
           Pattern(FALSE, {"youtu.be"}, FALSE, <<"[A-Za-z0-9_-]+">>),
           Pattern(TRUE, {"youtube.com"}, FALSE, <<"shorts", "[A-Za-z0-9_-]+">>) >>],
     [platform |-> "twitter", patterns |->
        << Pattern(TRUE, {"twitter.com"}, FALSE, <<"[^/]+", "status", "\\d+">>),
           Pattern(TRUE, {"x.com"}, FALSE, <<"[^/]+", "status", "\\d+">>) >>],
     [platform |-> "facebook", patterns |->
        << Pattern(TRUE, {"facebook.com"}, TRUE, <<"videos", "\\d+">>),
           Pattern(TRUE, {"fb.watch"}, FALSE, <<"[A-Za-z0-9_-]+">>) >>] >>

\* The classes match the first segments of the path.
PrefixMatches(classes, path) ==
  /\ Len(path) >= Len(classes)
  /\ \A k \in 1..Len(classes) : SegMatches(classes[k], path[k])

\* re.match(pattern, url, re.IGNORECASE): the pattern matches at the start of
\* the url; the scheme is optional, "www." is accepted where the pattern has
\* it, and ".+/" takes one or more leading segments, not all of them empty.
Matches(pattern, url) ==
  /\ url.scheme \in {"", "http://", "https://"}
  /\ url.www => pattern.www
  /\ casefold(url.host) \in pattern.hosts
  /\ IF pattern.skip
     THEN \E n \in 1..Len(url.path) :
            /\ n >= 2 \/ url.path[1] # ""
            /\ PrefixMatches(pattern.path, SubSeq(url.path, n + 1, Len(url.path)))
     ELSE PrefixMatches(pattern.path, url.path)

\* A classifier that looks at the host only.
DetectByHost(url) ==
  LET hits == {i \in DOMAIN PATTERNS :
                 \E k \in DOMAIN PATTERNS[i].patterns : url.host \in PATTERNS[i].patterns[k].hosts}
  IN IF hits = {} THEN ""
     ELSE PATTERNS[CHOOSE i \in hits : \A k \in hits : i <= k].platform

\* URLParser.detect_platform: the first pattern set, in order, one of whose
\* patterns matches; "" stands for None.  (url.strip() changes no token: a
\* token has no white space.)
detect_platform(url) ==
  LET hits == {i \in DOMAIN PATTERNS :
                 \E k \in DOMAIN PATTERNS[i].patterns : Matches(PATTERNS[i].patterns[k], url)}
  IN IF hits = {} THEN ""
     ELSE PATTERNS[CHOOSE i \in hits : \A k \in hits : i <= k].platform

\* A search that takes every token for a url.
FindallEveryToken(text) == text

\* re.findall(r'https?://[^\s]+', text) on a text given as its tokens: the
\* tokens that start with the scheme.
findall(text) == SelectSeq(text, LAMBDA token : token.scheme \in {"http://", "https://"})

RECURSIVE classify(_)
\* The loop of extract_urls over the urls found: those that classify, in order.
classify(found) ==
  IF found = <<>> THEN <<>>
  ELSE LET platform == detect_platform(Head(found))
       IN IF platform # ""
          THEN <<[url |-> Head(found), platform |-> platform]>> \o classify(Tail(found))
          ELSE classify(Tail(found))

\* URLParser.extract_urls.
extract_urls(text) == classify(findall(text))

\* The message texts users send.
Messages == { <<TikTokUrl>>, <<TikTokUrl, YouTubeUrl>> }

\* ------------------------------------------------------------------ registry
\* The service modules _discover_services can import and instantiate: all of
\* them, or all but ytdlp_service (its import of yt_dlp failing is logged and
\* skipped).
LoadableSets == { {"instagram", "tiktok", "ytdlp"}, {"instagram", "tiktok"} }

\* The orders in which a set can be visited: the tasks gather is handed as
\* *self.running_tasks, the files services_dir.glob lists (both arbitrary).
Orderings(S) ==
  {f \in [1..Cardinality(S) -> S] : \A a, b \in 1..Cardinality(S) : f[a] = f[b] => a = b}

\* A provider that declares no alias.
NoAliases(name) == {}

\* The ids a provider is also registered under: services["douyin"] for tiktok.
aliases(name) == IF name = "tiktok" THEN {"douyin"} ELSE {}

\* fallback_platforms: the ids ytdlp takes where nobody holds them yet.
fallbacks(name) ==
  IF name = "ytdlp" THEN {"youtube", "twitter", "facebook", "generic"} ELSE {}

\* One iteration of the loop of _discover_services for a module that imports
\* and has a service class: the instance (written as the service name) is
\* bound to its own name and to its aliases, whoever held them, and to each
\* fallback id not yet in the dictionary.
register_service(reg, name) ==
  [p \in aliases(name) |-> name] @@ (name :> name) @@ reg
    @@ [p \in fallbacks(name) |-> name]

RECURSIVE discover(_)
\* The dictionary after the modules of names were registered in that order.
discover(names) ==
  IF names = <<>> THEN <<>>
  ELSE register_service(discover(SubSeq(names, 1, Len(names) - 1)), names[Len(names)])

\* _discover_services: platform id -> service; an id outside the domain has
\* no service.  glob lists the modules in some order.
discover_services(loaded) ==
  discover(CHOOSE order \in Orderings(loaded) : TRUE)

\* A lookup that finds a service under every id.
ServicesGetAny(reg, platform) == "ytdlp"

\* dict.get on the registry; "" stands for None.
services_get(reg, platform) ==
  IF platform \in DOMAIN reg THEN reg[platform] ELSE ""

\* A lookup without the generic tier.
LookupExactOnly(reg, platform) == services_get(reg, platform)

\* get_service_for_url once the platform is detected ("" when it is not): the
\* service under the platform id, else the one under "generic", else None.
lookup(reg, platform) ==
  IF platform = "" THEN services_get(reg, "generic")
  ELSE IF services_get(reg, platform) # "" THEN services_get(reg, platform)
  ELSE services_get(reg, "generic")

\* A routing that takes every url for a youtube url.
RouteAsYoutube(reg, url) == lookup(reg, "youtube")

\* MediaDownloaderBot.get_service_for_url.
get_service_for_url(reg, url) == lookup(reg, detect_platform(url))

\* -------------------------------------------------------------------- ledger
\* DatabaseService.create_download_record: the new row.
\* A row created without the default of the status column.
CreateRecordNoStatus(url, platform) ==
  [url |-> url, platform |-> platform, status |-> "", file_path |-> <<>>,
   file_size |-> NULL_SIZE, error_message |-> "", completed_at |-> FALSE]

create_download_record(url, platform) ==
  [url |-> url, platform |-> platform, status |-> "pending", file_path |-> <<>>,
   file_size |-> NULL_SIZE, error_message |-> "", completed_at |-> FALSE]

\* The status update_download_record stores.
StoredStatus(status) == status

\* DatabaseService.update_download_record; <<>> (no path), 0 and "" are the
\* falsy arguments the "if file_path:", "if file_size:", "if error_message:"
\* tests skip.
update_download_record(rows, record_id, status, file_path, file_size, error_message) ==
  IF record_id \in DOMAIN rows
  THEN [rows EXCEPT ![record_id] =
          [@ EXCEPT !.status = StoredStatus(status),
                    !.file_path = IF file_path # <<>> THEN file_path ELSE @,
                    !.file_size = IF file_size # 0 THEN file_size ELSE @,
                    !.error_message = IF error_message # "" THEN error_message ELSE @,
                    !.completed_at = IF status = "completed" THEN TRUE ELSE @]]
  ELSE rows

\* ------------------------------------------------------------------- state
VARIABLES
  services,        \* MediaDownloaderBot.services
  ledger,          \* download_history rows, by record id
  requests,        \* history: the message texts handled, in order
  download_queue,  \* MediaDownloaderBot.download_queue
  shutdown_event,  \* MediaDownloaderBot.shutdown_event
  sem_value,       \* download_semaphore._value
  sem_waiters,     \* download_semaphore._waiters
  running_tasks,   \* MediaDownloaderBot.running_tasks
  jobs,            \* the process_download_task tasks, by record id
  worker,          \* the queue_worker task
  start,           \* the start() coroutine
  ready,           \* the event loop's ready queue
  cleanup_tasks,   \* record id -> number of cleanup_user_files tasks created
  enqOrder,        \* history: record ids in the order they were put on the queue
  deqOrder,        \* history: record ids in the order queue_worker dequeued them
  lateDeq,         \* history: tasks dequeued while shutdown_event was set
  hist,            \* of each job: Fetcher result, exceptions, notices; its temporary archive
  faults,          \* history: exceptions raised so far
  service_files,   \* _discover_services: the modules glob listed, still to process
  loaded,          \* history: the services registered, in order
  looked,          \* the last get_service_for_url call and what it returned
  now,             \* the loop's clock, in minutes
  dirs,            \* record ids whose output directory exists on disk
  timers,          \* the cleanup_user_files tasks created
  produced,        \* send_files_to_user: the files list it is called with
  metadata,        \* send_files_to_user: the metadata it is called with
  fetch_sessions,  \* of each "async with service" block: position, service, its ClientSession
  service_session, \* of each service instance: the block whose session self.session holds
  banned,          \* User.is_banned of the user of the model
  ban_log,         \* history: ban, unban and refused messages, with the rows at that time
  sent             \* send_files_to_user: what it handed to the transport

\* The queue, the tasks and the Ledger, which discovery, the cleanup tasks and
\* the packager leave alone.
task_vars == <<ledger, requests, download_queue, shutdown_event, sem_value, sem_waiters,
               running_tasks, jobs, worker, ready, cleanup_tasks, enqOrder, deqOrder,
               lateDeq, hist, faults>>

\* The ready queue and the positions of the tasks.
sched_vars == <<ready, jobs, worker, start>>

\* The state of discovery, of the cleanup tasks and of the packager, which
\* the dispatcher and the jobs below leave alone.
extra_vars == <<fetch_sessions, service_session, banned, ban_log>>
side_vars ==
  <<service_files, loaded, looked, now, dirs, timers, produced, metadata, sent, extra_vars>>

vars == <<services, ledger, requests, download_queue, shutdown_event, sem_value,
          sem_waiters, running_tasks, jobs, worker, start, ready, cleanup_tasks,
          enqOrder, deqOrder, lateDeq, hist, faults, side_vars>>

WorkerRef == [kind |-> "worker", id |-> 0]
StartRef == [kind |-> "start", id |-> 0]
JobRef(j) == [kind |-> "job", id |-> j]

\* Suspension points of process_download_task that wait for network I/O.
IoPcs == {"fetching", "delivering", "deliverErrNotify", "notifyFail", "excNotify"}
\* Positions inside "async with self.download_semaphore" (a slot is held).
SlotPcs == IoPcs \cup {"granted"}
Unfinished(j) == jobs[j].pc \in SlotPcs \cup {"new", "waiting"}

NoJob == [pc |-> "none", wake |-> "none", res |-> "none", url |-> TikTokUrl, platform |-> ""]
NoHist == [fetch |-> "none", delivery |-> "none", exc |-> {}, notified |-> FALSE,
           zip |-> "none", service |-> ""]

\* The output directory Path(DOWNLOAD_PATH) / str(user_id) / str(record_id) of
\* the single user of the model.
OutputDir(record_id) == <<"downloads", "user1", record_id>>

\* No lookup made, no file list packed yet.
NoLookup ==
  [url |-> [scheme |-> "", www |-> FALSE, host |-> "", path |-> <<>>], platform |-> "",
   service |-> ""]
NoSend == [kind |-> "none", entries |-> <<>>, caption |-> "", calls |-> <<>>]
NoMetadata == [title |-> "<missing>", caption |-> "<missing>"]

\* BaseDownloader.__init__: self.session = None (0); no block entered yet.
NoSession == [pc |-> "idle", service |-> "", state |-> "none", closes |-> 0]
SessionsIdle ==
  /\ fetch_sessions = [b \in 1..MaxBlocks |-> NoSession]
  /\ service_session = [svc \in {"tiktok", "ytdlp"} |-> 0]

\* The user is known and not banned.
BanIdle == banned = FALSE /\ ban_log = <<>>

DiscoveryDone == service_files = <<>> /\ loaded = <<>> /\ looked = NoLookup
CleanupIdle == now = 0 /\ dirs = {} /\ timers = {}
PackagerIdle == produced = <<>> /\ metadata = NoMetadata /\ sent = NoSend

\* MediaDownloaderBot.__init__ and the first step of start(): an empty queue,
\* the semaphore at its limit, the worker task created and ready to run.
CoreInit ==
  /\ SessionsIdle
  /\ BanIdle
  /\ ledger = <<>>
  /\ requests = <<>>
  /\ download_queue = <<>>
  /\ shutdown_event = FALSE
  /\ sem_value = MAX_CONCURRENT_DOWNLOADS
  /\ sem_waiters = <<>>
  /\ running_tasks = {}
  /\ jobs = [j \in TaskIds |-> NoJob]
  /\ worker = [pc |-> "init", wake |-> "go", cancelReq |-> FALSE]
  /\ start = [pc |-> "wait_event", wake |-> "none"]
  /\ ready = <<WorkerRef>>
  /\ cleanup_tasks = [j \in TaskIds |-> 0]
  /\ enqOrder = <<>>
  /\ deqOrder = <<>>
  /\ lateDeq = 0
  /\ hist = [j \in TaskIds |-> NoHist]
  /\ faults = 0

Init ==
  /\ services \in {discover_services(files) : files \in LoadableSets}
  /\ CoreInit
  /\ DiscoveryDone
  /\ CleanupIdle
  /\ PackagerIdle

\* The process is alive: asyncio.run has not returned.
Alive == start.pc # "exited"

\* ------------------------------------------------------------------ producer
\* asyncio.Queue() is built without maxsize: 0 means unbounded.
QUEUE_MAXSIZE == 0

\* An asyncio.Queue(maxsize=1).full(), as a bounded queue would answer.
QueueFullBounded(q) == Len(q) >= 1

\* asyncio.Queue.full() of download_queue.
QueueFull(q) == IF QUEUE_MAXSIZE <= 0 THEN FALSE ELSE Len(q) >= QUEUE_MAXSIZE

\* The task_data dictionaries process_download_request builds for the urls of
\* one message, the first record id being first_id.
TaskData(urls, first_id) ==
  [k \in 1..Len(urls) |->
     [record_id |-> first_id + k - 1, url |-> urls[k].url, platform |-> urls[k].platform]]

\* The rows create_download_record adds for the urls of one message.
NewRows(urls) ==
  [k \in 1..Len(urls) |-> create_download_record(urls[k].url, urls[k].platform)]

\* The worker is suspended in download_queue.get() with a live getter future.
WorkerInGet == worker.pc = "get" /\ worker.wake = "none"

\* A ban check that lets everybody through.
NobodyBanned(is_banned) == FALSE

\* DatabaseService.is_user_banned for the user of the model, whose row exists.
is_user_banned(is_banned) == is_banned

\* DownloadHandler.process_download_request for one message text: a Ledger row
\* and a queue entry per url, in order; put() returns without suspending unless
\* the queue is full; the first put wakes a getter.
Request(text) ==
  LET urls == extract_urls(text)
      items == TaskData(urls, Len(ledger) + 1)
  IN /\ Alive
     /\ ~is_user_banned(banned)
     /\ Len(ledger) + Len(urls) <= MaxTasks
     /\ \A k \in 1..Len(urls) : ~QueueFull(download_queue \o SubSeq(items, 1, k - 1))
     /\ requests' = Append(requests, text)
     /\ ledger' = ledger \o NewRows(urls)
     /\ download_queue' = download_queue \o items
     /\ enqOrder' = enqOrder \o [k \in 1..Len(items) |-> items[k].record_id]
     /\ IF urls # <<>> /\ WorkerInGet
        THEN /\ worker' = [worker EXCEPT !.wake = "item"]
             /\ ready' = Append(ready, WorkerRef)
        ELSE UNCHANGED <<worker, ready>>
     /\ UNCHANGED <<side_vars, services, shutdown_event, sem_value, sem_waiters, running_tasks,
                    jobs, start, cleanup_tasks, deqOrder, lateDeq, hist, faults>>

\* asyncio.Event.set() on shutdown_event: wakes start(), which waits on it.
SetShutdown ==
  /\ Alive
  /\ ~shutdown_event
  /\ shutdown_event' = TRUE
  /\ start' = [start EXCEPT !.wake = "go"]
  /\ ready' = Append(ready, StartRef)
  /\ UNCHANGED <<side_vars, services, ledger, requests, download_queue, sem_value, sem_waiters,
                 running_tasks, jobs, worker, cleanup_tasks, enqOrder, deqOrder, lateDeq, hist,
                 faults>>

\* The SIGTERM/SIGINT handler start() installs.
Signal == SetShutdown

\* AdminHandler.handle_stop_command.
handle_stop_command == SetShutdown

\* The 1.0 s timeout of asyncio.wait_for(download_queue.get()) expires.
PollTimeout ==
  /\ Alive
  /\ WorkerInGet
  /\ worker' = [worker EXCEPT !.wake = "timeout"]
  /\ ready' = Append(ready, WorkerRef)
  /\ UNCHANGED <<side_vars, services, ledger, requests, download_queue, shutdown_event, sem_value,
                 sem_waiters, running_tasks, jobs, start, cleanup_tasks, enqOrder, deqOrder,
                 lateDeq, hist, faults>>

\* What the awaited call of a job at a suspension point can come back with.
IoResults(pc) == IF pc = "fetching" THEN {"ok", "fail", "raise"} ELSE {"ok", "raise"}

\* The network call job j awaits (service.download and the session close, or a
\* send_* of the transport) completes with result r and wakes the job.
IoComplete(j, r) ==
  /\ Alive
  /\ jobs[j].pc \in IoPcs
  /\ jobs[j].wake = "none"
  /\ r \in IoResults(jobs[j].pc)
  /\ r = "raise" => faults < MaxFaults
  /\ faults' = IF r = "raise" THEN faults + 1 ELSE faults
  /\ jobs' = [jobs EXCEPT ![j].wake = "go", ![j].res = r]
  /\ ready' = Append(ready, JobRef(j))
  /\ UNCHANGED <<side_vars, services, ledger, requests, download_queue, shutdown_event, sem_value,
                 sem_waiters, running_tasks, worker, start, cleanup_tasks, enqOrder, deqOrder,
                 lateDeq, hist>>

\* Client.stop() awaited by start() completes.
AppStopComplete ==
  /\ start.pc = "stopping"
  /\ start.wake = "none"
  /\ start' = [start EXCEPT !.wake = "go"]
  /\ ready' = Append(ready, StartRef)
  /\ UNCHANGED <<side_vars, services, ledger, requests, download_queue, shutdown_event, sem_value,
                 sem_waiters, running_tasks, jobs, worker, cleanup_tasks, enqOrder, deqOrder,
                 lateDeq, hist, faults>>

\* ---------------------------------------------------------------- dispatcher
AtHead(ref) == ready # <<>> /\ Head(ready) = ref

\* A loop test that never sees the shutdown signal.
LoopIgnoresShutdown(event_set) == TRUE

\* queue_worker's loop test "while not self.shutdown_event.is_set()".
LoopContinues(event_set) == ~event_set

\* A dequeue from the wrong end of the queue.
GetNowaitLifo(q, n) ==
  [k \in 1..n |-> q[Len(q) + 1 - k]]

\* The n items download_queue.get() hands out next: the oldest first.
GetNowait(q, n) == SubSeq(q, 1, n)

\* A get() after which the queue is empty, whatever it held.
QueueEmptied(q, taken) == <<>>

\* A get() that leaves the items it hands out in the queue.
QueueKeepsAll(q, taken) == q

\* The queue after n items were taken.
QueueRest(q, taken) ==
  SelectSeq(q, LAMBDA item : \A k \in 1..Len(taken) : taken[k] # item)

\* A dispatcher that takes one item and leaves the rest until it is woken again.
DequeuedOne(wake, q, event_set) == GetNowait(q, IF q = <<>> THEN 0 ELSE 1)

\* The items one run of queue_worker dequeues before it suspends again.  Woken
\* by a put, get() returns its item before the loop tests the signal again;
\* after that, and after a timeout, each iteration tests the signal first and
\* get() returns at once while the queue is not empty.
Dequeued(wake, q, event_set) ==
  IF LoopContinues(event_set) THEN GetNowait(q, Len(q))
  ELSE IF wake = "item" THEN GetNowait(q, 1)
  ELSE <<>>

\* Tasks that the loop would run in the reverse of the order of their creation.
SpawnedReversed(ids) == [k \in 1..Len(ids) |-> JobRef(ids[Len(ids) + 1 - k])]

\* asyncio.create_task for each dequeued item in turn: the new tasks join the
\* ready queue in the order of their creation.
Spawned(ids) == [k \in 1..Len(ids) |-> JobRef(ids[k])]

\* queue_worker from one suspension to the next: dequeue, create a task per
\* item, add it to running_tasks; leave the loop once the signal is seen and
\* gather the running tasks.  (The "except Exception" arm is not reachable:
\* nothing in the loop body raises.)
queue_worker ==
  /\ AtHead(WorkerRef)
  /\ worker.wake \in {"go", "item", "timeout"}
  /\ LET taken == Dequeued(worker.wake, download_queue, shutdown_event)
         n == Len(taken)
         ids == [k \in 1..n |-> taken[k].record_id]
         rt == running_tasks \cup {ids[k] : k \in 1..n}
     IN /\ download_queue' = QueueRest(download_queue, taken)
        /\ jobs' = [j \in TaskIds |->
                      IF \E k \in 1..n : ids[k] = j
                      THEN LET k == CHOOSE k \in 1..n : ids[k] = j
                           IN [pc |-> "new", wake |-> "go", res |-> "none",
                               url |-> taken[k].url, platform |-> taken[k].platform]
                      ELSE jobs[j]]
        /\ ready' = Tail(ready) \o Spawned(ids)
        /\ running_tasks' = rt
        /\ deqOrder' = deqOrder \o ids
        /\ lateDeq' = lateDeq + (IF shutdown_event THEN n ELSE 0)
        /\ worker' = IF LoopContinues(shutdown_event)
                     THEN [worker EXCEPT !.pc = "get", !.wake = "none"]
                     ELSE IF rt # {}
                     THEN [worker EXCEPT !.pc = "drain", !.wake = "none"]
                     ELSE [worker EXCEPT !.pc = "done", !.wake = "none"]
  /\ UNCHANGED <<side_vars, services, ledger, requests, shutdown_event, sem_value, sem_waiters,
                 start, cleanup_tasks, enqOrder, hist, faults>>

\* CancelledError is raised at the worker's suspension point; no handler of
\* queue_worker catches it, so the task ends and start(), awaiting it, wakes.
queue_worker_cancelled ==
  /\ AtHead(WorkerRef)
  /\ worker.wake = "cancel"
  /\ worker' = [worker EXCEPT !.pc = "cancelled", !.wake = "none"]
  /\ start' = [start EXCEPT !.wake = "go"]
  /\ ready' = Append(Tail(ready), StartRef)
  /\ UNCHANGED <<side_vars, services, ledger, requests, download_queue, shutdown_event, sem_value,
                 sem_waiters, running_tasks, jobs, cleanup_tasks, enqOrder, deqOrder, lateDeq,
                 hist, faults>>

\* ------------------------------------------------------------------ shutdown
\* A cleanup task created also for a job that never entered its try block.
CleanupAlwaysScheduled(sched, n) == n + 1

\* A finally clause that creates no cleanup task.
CleanupNeverScheduled(sched, n) == n

\* The finally clause of process_download_task, when it runs (sched), creates
\* one cleanup_user_files task for the record; n counts those created so far.
CleanupScheduled(sched, n) == IF sched THEN n + 1 ELSE n

\* Task.cancel() on each job of order: a job already woken keeps its place in
\* ready and finds CancelledError when it runs; a suspended job has its future
\* cancelled, which wakes it.  A cancelled waiter of the semaphore is skipped
\* by every later release, so it leaves sem_waiters here.
CancelledJobs(S) ==
  [j \in TaskIds |-> IF j \in S THEN [jobs[j] EXCEPT !.wake = "cancel"] ELSE jobs[j]]

CancelWakes(order) ==
  LET refs == [k \in 1..Len(order) |-> JobRef(order[k])]
  IN SelectSeq(refs, LAMBDA r : jobs[r.id].wake = "none")

\* start() resumes from shutdown_event.wait(): it cancels a worker that is not
\* done and awaits it; a finished worker lets it go on to Client.stop().
\* Cancelling the worker while it awaits its gather cancels every gathered job.
start_on_shutdown ==
  /\ AtHead(StartRef)
  /\ start.pc = "wait_event"
  /\ IF worker.pc = "done"
     THEN /\ start' = [pc |-> "stopping", wake |-> "none"]
          /\ ready' = Tail(ready)
          /\ UNCHANGED <<worker, jobs, sem_waiters>>
     ELSE /\ start' = [pc |-> "await_worker", wake |-> "none"]
          /\ IF worker.wake # "none"
             THEN /\ worker' = [worker EXCEPT !.wake = "cancel"]
                  /\ ready' = Tail(ready)
                  /\ UNCHANGED <<jobs, sem_waiters>>
             ELSE IF worker.pc = "get"
             THEN /\ worker' = [worker EXCEPT !.wake = "cancel"]
                  /\ ready' = Append(Tail(ready), WorkerRef)
                  /\ UNCHANGED <<jobs, sem_waiters>>
             ELSE \E order \in Orderings(running_tasks) :
                  /\ worker' = [worker EXCEPT !.cancelReq = TRUE]
                  /\ jobs' = CancelledJobs(running_tasks)
                  /\ ready' = Tail(ready) \o CancelWakes(order)
                  /\ sem_waiters' = SelectSeq(sem_waiters, LAMBDA w : w \notin running_tasks)
  /\ UNCHANGED <<side_vars, services, ledger, requests, download_queue, shutdown_event, sem_value,
                 running_tasks, cleanup_tasks, enqOrder, deqOrder, lateDeq, hist, faults>>

\* "await worker_task" raises CancelledError, which start() logs; it goes on to
\* "await self.app.stop()".
start_after_worker ==
  /\ AtHead(StartRef)
  /\ start.pc = "await_worker"
  /\ start' = [pc |-> "stopping", wake |-> "none"]
  /\ ready' = Tail(ready)
  /\ UNCHANGED <<side_vars, services, ledger, requests, download_queue, shutdown_event, sem_value,
                 sem_waiters, running_tasks, jobs, worker, cleanup_tasks, enqOrder, deqOrder,
                 lateDeq, hist, faults>>

\* start() and main() return; asyncio.run cancels every task still pending and
\* runs each to its end: a job suspended inside the try block runs its finally
\* (cleanup is scheduled, the slot released), one that had not entered it just
\* ends.  No Ledger row is written on this path.
start_exit ==
  /\ AtHead(StartRef)
  /\ start.pc = "stopping"
  /\ start' = [pc |-> "exited", wake |-> "none"]
  /\ jobs' = [j \in TaskIds |->
                IF Unfinished(j)
                THEN [jobs[j] EXCEPT !.pc = "cancelled", !.wake = "none", !.res = "none"]
                ELSE jobs[j]]
  /\ cleanup_tasks' = [j \in TaskIds |->
                         CleanupScheduled(jobs[j].pc \in IoPcs, cleanup_tasks[j])]
  /\ sem_value' = MAX_CONCURRENT_DOWNLOADS
  /\ sem_waiters' = <<>>
  /\ running_tasks' = {}
  /\ ready' = <<>>
  /\ UNCHANGED <<side_vars, services, ledger, requests, download_queue, shutdown_event, worker,
                 enqOrder, deqOrder, lateDeq, hist, faults>>

\* ---------------------------------------------------------------------- jobs
\* A semaphore that never reports itself taken.
SemNeverLocked(value, waiters) == FALSE

\* asyncio.Semaphore.locked(): no free slot, or somebody is already waiting.
SemLocked(value, waiters) == value = 0 \/ waiters # <<>>

\* The sizes in bytes of the three files of a successful fetch.
ProducedSizes == <<10, 20, 30>>

RECURSIVE Sum(_)
Sum(sizes) == IF sizes = <<>> THEN 0 ELSE Head(sizes) + Sum(Tail(sizes))

\* result['files'] of a successful fetch: three files of 10, 20 and 30 bytes
\* found in the output directory, or the names of two intermediate files that
\* were reported when written and are no longer on disk.
ThreeFiles ==
  << [name |-> "a", size |-> ProducedSizes[1], exists |-> TRUE],
     [name |-> "b", size |-> ProducedSizes[2], exists |-> TRUE],
     [name |-> "c", size |-> ProducedSizes[3], exists |-> TRUE] >>
GoneFiles ==
  << [name |-> "v.f1", size |-> 10, exists |-> FALSE],
     [name |-> "v.f2", size |-> 20, exists |-> FALSE] >>

\* tempfile.NamedTemporaryFile(suffix='.zip', delete=False) of send_files_to_user:
\* a list of more than one file has a temporary archive written for it, which
\* stays on disk when the file object is closed.
ZipCreated(files) == IF Len(files) > 1 THEN "exists" ELSE "none"

\* Path(zip_file.name).unlink(missing_ok=True).
ZipUnlinked(zip) == IF zip = "exists" THEN "removed" ELSE zip

\* The file list a service's successful download returns: TikTokService and
\* InstagramService list files they find on disk after the download;
\* YtDlpService lists the file names its progress hook was told, among them
\* intermediate files removed since.
FetchedFiles(service) == IF service = "ytdlp" THEN GoneFiles ELSE ThreeFiles

\* sum(Path(f).stat().st_size for f in result['files'] if Path(f).exists()).
total_size(files) ==
  Sum([k \in 1..Len(SelectSeq(files, LAMBDA f : f.exists)) |->
         SelectSeq(files, LAMBDA f : f.exists)[k].size])

\* result['error'] of a failed fetch.
FetchError == "Private profile"

\* str(e) of the ValueError raised when no service resolves, and of an
\* exception raised by service.download.
RoutingErrorText == "No service available for platform"
FetchExceptionText == "fetch raised"

\* An exception whose str() is empty.
ErrTextBlank(site) == ""

\* str(e) of the exception raised at a site of the job.
ErrText(site) ==
  CASE site = "route" -> RoutingErrorText
    [] site = "mkdir" -> "mkdir failed"
    [] site = "fetch" -> FetchExceptionText
    [] OTHER -> "send failed"

JobRuns(j) == AtHead(JobRef(j)) /\ jobs[j].wake = "go"

\* A release that raises the value and wakes nobody.
ReleaseWakesNobody(holds, waiters) == FALSE

\* Semaphore.release() with a waiter queued: the slot goes to the first one.
ReleaseGrants(holds, waiters) == holds /\ waiters # <<>>

\* The job's task ends at position endpc.  Leaving "async with
\* download_semaphore" releases the slot: release() hands it to the first
\* waiter, which is woken, or else raises the value.  The finally clause of
\* the try block has created the cleanup task when sched.  The task's done
\* callbacks discard it from running_tasks and, once it was the last one a
\* draining worker gathered, wake the worker.  (A worker woken "drained" never
\* runs as such: start(), woken by the signal before the worker saw it, is
\* still ahead of it in ready and cancels it first.)
\* An exit from "async with" that gives no slot back.
ReleaseLeaks(value, holds, grant) == value

\* Semaphore.release() at the exit from "async with", for a job that holds a
\* slot: the value goes up by one unless the slot is handed to a waiter.
Released(value, holds, grant) == IF holds /\ ~grant THEN value + 1 ELSE value

Finish(j, endpc, sched, holds) ==
  LET grant == ReleaseGrants(holds, sem_waiters)
      w == Head(sem_waiters)
      ended == [jobs EXCEPT ![j] = [@ EXCEPT !.pc = endpc, !.wake = "none", !.res = "none"]]
      rest == running_tasks \ {j}
      drained == worker.pc = "drain" /\ worker.wake = "none" /\ rest = {}
      rdy == IF grant THEN Append(Tail(ready), JobRef(w)) ELSE Tail(ready)
  IN /\ jobs' = IF grant
                THEN [ended EXCEPT ![w] = [@ EXCEPT !.pc = "granted", !.wake = "go"]]
                ELSE ended
     /\ sem_value' = Released(sem_value, holds, grant)
     /\ sem_waiters' = IF grant THEN Tail(sem_waiters) ELSE sem_waiters
     /\ running_tasks' = rest
     /\ worker' = IF drained
                  THEN [worker EXCEPT !.wake = IF worker.cancelReq THEN "cancel" ELSE "drained"]
                  ELSE worker
     /\ ready' = IF drained THEN Append(rdy, WorkerRef) ELSE rdy
     /\ cleanup_tasks' = [cleanup_tasks EXCEPT ![j] = CleanupScheduled(sched, @)]

\* An except arm that notifies without writing the row.
OnExceptionUnrecorded(j, site) ==
  /\ ledger' = ledger
  /\ jobs' = [jobs EXCEPT ![j] = [@ EXCEPT !.pc = "excNotify", !.wake = "none", !.res = "none"]]
  /\ ready' = Tail(ready)

\* The "except Exception as e" arm of process_download_task up to its await:
\* the row is written failed with str(e), then the requester is notified.
OnException(j, site) ==
  /\ ledger' = update_download_record(ledger, j, "failed", <<>>, 0, ErrText(site))
  /\ jobs' = [jobs EXCEPT ![j] = [@ EXCEPT !.pc = "excNotify", !.wake = "none", !.res = "none"]]
  /\ ready' = Tail(ready)

\* "async with self.download_semaphore" finds the semaphore locked: the job
\* queues up behind the other waiters.
job_wait(j) ==
  /\ JobRuns(j)
  /\ jobs[j].pc = "new"
  /\ SemLocked(sem_value, sem_waiters)
  /\ jobs' = [jobs EXCEPT ![j] = [@ EXCEPT !.pc = "waiting", !.wake = "none"]]
  /\ sem_waiters' = Append(sem_waiters, j)
  /\ ready' = Tail(ready)
  /\ UNCHANGED <<side_vars, services, ledger, requests, download_queue, shutdown_event, sem_value,
                 running_tasks, worker, start, cleanup_tasks, enqOrder, deqOrder, lateDeq, hist,
                 faults>>

\* The job has its slot (taken now, or handed over by a release).
Enters(j) ==
  /\ JobRuns(j)
  /\ \/ jobs[j].pc = "granted"
     \/ jobs[j].pc = "new" /\ ~SemLocked(sem_value, sem_waiters)
  /\ sem_value' = IF jobs[j].pc = "new" THEN sem_value - 1 ELSE sem_value

\* A lookup that stores a default service for the platform it was asked for.
LookupStoresDefault(reg, url) == (detect_platform(url) :> "ytdlp") @@ reg

\* self.services after get_service_for_url(url): the method only reads it
\* (self.services.get, three times).
services_after_lookup(reg, url) == reg

\* process_download_task from the slot to "await service.download(...)": the
\* service resolves and the output directory is created.
job_start_fetch(j) ==
  /\ Enters(j)
  /\ get_service_for_url(services, jobs[j].url) # ""
  /\ jobs' = [jobs EXCEPT ![j] = [@ EXCEPT !.pc = "fetching", !.wake = "none"]]
  /\ ready' = Tail(ready)
  /\ services' = services_after_lookup(services, jobs[j].url)
  /\ hist' = [hist EXCEPT ![j].service = get_service_for_url(services, jobs[j].url)]
  /\ UNCHANGED <<side_vars, ledger, requests, download_queue, shutdown_event, sem_waiters,
                 running_tasks, worker, start, cleanup_tasks, enqOrder, deqOrder, lateDeq,
                 faults>>

\* No service resolves: ValueError is raised inside the try block.
job_no_service(j) ==
  /\ Enters(j)
  /\ get_service_for_url(services, jobs[j].url) = ""
  /\ OnException(j, "route")
  /\ hist' = [hist EXCEPT ![j].exc = @ \cup {"route"}]
  /\ services' = services_after_lookup(services, jobs[j].url)
  /\ UNCHANGED <<side_vars, requests, download_queue, shutdown_event, sem_waiters,
                 running_tasks, worker, start, cleanup_tasks, enqOrder, deqOrder, lateDeq, faults>>

\* output_dir.mkdir raises.
job_mkdir_raises(j) ==
  /\ Enters(j)
  /\ get_service_for_url(services, jobs[j].url) # ""
  /\ faults < MaxFaults
  /\ faults' = faults + 1
  /\ OnException(j, "mkdir")
  /\ hist' = [hist EXCEPT ![j].exc = @ \cup {"mkdir"},
                          ![j].service = get_service_for_url(services, jobs[j].url)]
  /\ services' = services_after_lookup(services, jobs[j].url)
  /\ UNCHANGED <<side_vars, requests, download_queue, shutdown_event, sem_waiters,
                 running_tasks, worker, start, cleanup_tasks, enqOrder, deqOrder, lateDeq>>

\* The fetch returned success: the row is written completed with the output
\* directory and the total size, and send_files_to_user starts its send.
job_fetch_ok(j) ==
  /\ JobRuns(j)
  /\ jobs[j].pc = "fetching"
  /\ jobs[j].res = "ok"
  /\ LET files == FetchedFiles(get_service_for_url(services, jobs[j].url))
     IN /\ ledger' = update_download_record(ledger, j, "completed", OutputDir(j),
                                            total_size(files), "")
        /\ hist' = [hist EXCEPT ![j].fetch = "ok", ![j].zip = ZipCreated(files)]
  /\ jobs' = [jobs EXCEPT ![j] = [@ EXCEPT !.pc = "delivering", !.wake = "none", !.res = "none"]]
  /\ ready' = Tail(ready)
  /\ UNCHANGED <<side_vars, services, requests, download_queue, shutdown_event, sem_value,
                 sem_waiters, running_tasks, worker, start, cleanup_tasks, enqOrder, deqOrder,
                 lateDeq, faults>>

\* The fetch returned a failure result: the row is written failed with the
\* result's error and the requester is notified.
job_fetch_fail(j) ==
  /\ JobRuns(j)
  /\ jobs[j].pc = "fetching"
  /\ jobs[j].res = "fail"
  /\ ledger' = update_download_record(ledger, j, "failed", <<>>, 0, FetchError)
  /\ jobs' = [jobs EXCEPT ![j] = [@ EXCEPT !.pc = "notifyFail", !.wake = "none", !.res = "none"]]
  /\ ready' = Tail(ready)
  /\ hist' = [hist EXCEPT ![j].fetch = "fail"]
  /\ UNCHANGED <<side_vars, services, requests, download_queue, shutdown_event, sem_value,
                 sem_waiters, running_tasks, worker, start, cleanup_tasks, enqOrder, deqOrder,
                 lateDeq, faults>>

\* service.download (or the session's close) raised.
job_fetch_raises(j) ==
  /\ JobRuns(j)
  /\ jobs[j].pc = "fetching"
  /\ jobs[j].res = "raise"
  /\ OnException(j, "fetch")
  /\ hist' = [hist EXCEPT ![j].fetch = "raise", ![j].exc = @ \cup {"fetch"}]
  /\ UNCHANGED <<side_vars, services, requests, download_queue, shutdown_event, sem_value,
                 sem_waiters, running_tasks, worker, start, cleanup_tasks, enqOrder, deqOrder,
                 lateDeq, faults>>

\* The send of send_files_to_user returned: the temporary archive is unlinked,
\* the job logs and runs its finally.
job_delivered(j) ==
  /\ JobRuns(j)
  /\ jobs[j].pc = "delivering"
  /\ jobs[j].res = "ok"
  /\ Finish(j, "done", TRUE, TRUE)
  /\ hist' = [hist EXCEPT ![j].delivery = "ok", ![j].zip = ZipUnlinked(@)]
  /\ UNCHANGED <<side_vars, services, ledger, requests, download_queue, shutdown_event, start,
                 enqOrder, deqOrder, lateDeq, faults>>

\* The send raised: send_files_to_user logs it and sends an error notice.
job_delivery_raises(j) ==
  /\ JobRuns(j)
  /\ jobs[j].pc = "delivering"
  /\ jobs[j].res = "raise"
  /\ jobs' = [jobs EXCEPT ![j] = [@ EXCEPT !.pc = "deliverErrNotify", !.wake = "none", !.res = "none"]]
  /\ ready' = Tail(ready)
  /\ hist' = [hist EXCEPT ![j].delivery = "raised", ![j].exc = @ \cup {"delivery"}]
  /\ UNCHANGED <<side_vars, services, ledger, requests, download_queue, shutdown_event, sem_value,
                 sem_waiters, running_tasks, worker, start, cleanup_tasks, enqOrder, deqOrder,
                 lateDeq, faults>>

\* The error notice of send_files_to_user was sent: it returns normally.
job_delivery_error_notified(j) ==
  /\ JobRuns(j)
  /\ jobs[j].pc = "deliverErrNotify"
  /\ jobs[j].res = "ok"
  /\ Finish(j, "done", TRUE, TRUE)
  /\ UNCHANGED <<side_vars, services, ledger, requests, download_queue, shutdown_event, start,
                 enqOrder, deqOrder, lateDeq, hist, faults>>

\* A send_message awaited inside the try block raised (the error notice of
\* send_files_to_user, or the failure notice after a failed fetch): the
\* exception reaches the "except Exception" arm of process_download_task.
job_notice_raises(j) ==
  /\ JobRuns(j)
  /\ jobs[j].pc \in {"deliverErrNotify", "notifyFail"}
  /\ jobs[j].res = "raise"
  /\ OnException(j, "notify")
  /\ hist' = [hist EXCEPT ![j].exc = @ \cup {"notify"}]
  /\ UNCHANGED <<side_vars, services, requests, download_queue, shutdown_event, sem_value,
                 sem_waiters, running_tasks, worker, start, cleanup_tasks, enqOrder, deqOrder,
                 lateDeq, faults>>

\* A "Download failed" notice reached the requester.
job_failure_notified(j) ==
  /\ JobRuns(j)
  /\ jobs[j].pc \in {"notifyFail", "excNotify"}
  /\ jobs[j].res = "ok"
  /\ Finish(j, "done", TRUE, TRUE)
  /\ hist' = [hist EXCEPT ![j].notified = TRUE]
  /\ UNCHANGED <<side_vars, services, ledger, requests, download_queue, shutdown_event, start,
                 enqOrder, deqOrder, lateDeq, faults>>

\* The notice sent from the except arm raised: "except Exception: pass".
job_notice_swallowed(j) ==
  /\ JobRuns(j)
  /\ jobs[j].pc = "excNotify"
  /\ jobs[j].res = "raise"
  /\ Finish(j, "done", TRUE, TRUE)
  /\ hist' = [hist EXCEPT ![j].exc = @ \cup {"notify"}]
  /\ UNCHANGED <<side_vars, services, ledger, requests, download_queue, shutdown_event, start,
                 enqOrder, deqOrder, lateDeq, faults>>

\* CancelledError is raised at the job's suspension point.  It is no
\* Exception, so the except arm is skipped: inside the try block only the
\* finally runs; before it (not started, or waiting for a slot) nothing does.
job_cancelled(j) ==
  /\ AtHead(JobRef(j))
  /\ jobs[j].wake = "cancel"
  /\ Finish(j, "cancelled", jobs[j].pc \in IoPcs, jobs[j].pc \in SlotPcs)
  /\ UNCHANGED <<side_vars, services, ledger, requests, download_queue, shutdown_event, start,
                 enqOrder, deqOrder, lateDeq, hist, faults>>

\* ------------------------------------------------------------- specification
JobStep(j) ==
  \/ job_wait(j)
  \/ job_start_fetch(j)
  \/ job_no_service(j)
  \/ job_mkdir_raises(j)
  \/ job_fetch_ok(j)
  \/ job_fetch_fail(j)
  \/ job_fetch_raises(j)
  \/ job_delivered(j)
  \/ job_delivery_raises(j)
  \/ job_delivery_error_notified(j)
  \/ job_notice_raises(j)
  \/ job_failure_notified(j)
  \/ job_notice_swallowed(j)
  \/ job_cancelled(j)

\* The event loop runs the task at the head of its ready queue.
RunReady ==
  \/ queue_worker
  \/ queue_worker_cancelled
  \/ start_on_shutdown
  \/ start_after_worker
  \/ start_exit
  \/ \E j \in TaskIds : JobStep(j)

Next ==
  \/ \E text \in Messages : Request(text)
  \/ Signal
  \/ handle_stop_command
  \/ PollTimeout
  \/ \E j \in TaskIds : \E r \in {"ok", "fail", "raise"} : IoComplete(j, r)
  \/ AppStopComplete
  \/ RunReady

Spec == Init /\ [][Next]_vars

\* The loop runs what is ready, timers expire, awaited network calls return
\* (the Fetcher and the transport answer within bounded time).  Messages and
\* shutdown signals are the environment's choice and carry no fairness.
\* Each of these steps changes the scheduling state sched_vars.
Fairness ==
  /\ WF_sched_vars(RunReady)
  /\ WF_sched_vars(PollTimeout)
  /\ WF_sched_vars(AppStopComplete)
  /\ \A j \in TaskIds : WF_sched_vars(\E r \in {"ok", "fail", "raise"} : IoComplete(j, r))

LiveSpec == Spec /\ Fairness

\* ----------------------------------------------------------------- discovery
\* Modules one run of discovery is handed.
MaxProviders == 3

\* The stems, less "_service", of the *_service.py modules the services
\* directory can hold: the four of the repository and two a deployment adds,
\* one named after a platform ytdlp falls back for, one after tiktok's alias.
ServiceModules == {"db", "douyin", "instagram", "tiktok", "youtube", "ytdlp"}

\* The module holds a class whose name ends in "Service" and that has a
\* download attribute: db_service.py (DatabaseService) holds none.
has_service_class(name) == name # "db"

\* What services_dir.glob("*_service.py") can list: some of the modules, in
\* any order.
FileListings ==
  UNION {Orderings(S) : S \in {T \in SUBSET ServiceModules : Cardinality(T) <= MaxProviders}}

DouyinUrl ==
  [scheme |-> "https://", www |-> FALSE, host |-> "v.douyin.com", path |-> <<"abc">>]
InstagramUrl ==
  [scheme |-> "https://", www |-> TRUE, host |-> "instagram.com", path |-> <<"p", "-ab">>]
UnknownUrl ==
  [scheme |-> "https://", www |-> FALSE, host |-> "example.org", path |-> <<"abc">>]
LookupUrls == {TikTokUrl, DouyinUrl, InstagramUrl, YouTubeUrl, UnknownUrl}

RegistryInit ==
  /\ services = <<>>
  /\ CoreInit
  /\ service_files \in FileListings
  /\ loaded = <<>>
  /\ looked = NoLookup
  /\ CleanupIdle
  /\ PackagerIdle

\* The loop body of _discover_services for the next module: it imports, a
\* service class is found and instantiated, and the instance is registered.
register_next ==
  /\ service_files # <<>>
  /\ has_service_class(Head(service_files))
  /\ services' = register_service(services, Head(service_files))
  /\ loaded' = Append(loaded, Head(service_files))
  /\ service_files' = Tail(service_files)
  /\ UNCHANGED <<task_vars, start, looked, now, dirs, timers, produced, metadata, sent, extra_vars>>

\* The module has no service class, or its import or the constructor raises:
\* the loop logs it and goes on to the next module.
skip_next ==
  /\ service_files # <<>>
  /\ service_files' = Tail(service_files)
  /\ UNCHANGED <<task_vars, start, services, loaded, looked, now, dirs, timers, produced, metadata, sent, extra_vars>>

\* get_service_for_url(url), called once discovery has returned.
lookup_url(url) ==
  /\ service_files = <<>>
  /\ looked' = [url |-> url, platform |-> detect_platform(url),
                service |-> get_service_for_url(services, url)]
  /\ UNCHANGED <<task_vars, start, services, service_files, loaded, now, dirs, timers,
                 produced, metadata, sent, extra_vars>>

RegistryNext ==
  \/ register_next
  \/ skip_next
  \/ \E url \in LookupUrls : lookup_url(url)

RegistrySpec == RegistryInit /\ [][RegistryNext]_vars

\* ------------------------------------------------------------------- cleanup
\* Cleanup tasks created over one run, and the last minute one is created at.
MaxCleanups == 2
MaxSchedTime == 1

\* config.CLEANUP_DELAY_HOURS (an environment setting, default 24); the model
\* runs the bot configured with 1.
CLEANUP_DELAY_HOURS == 1

\* A cleanup that does not sleep.
SleepNone(delay_hours) == 0

\* asyncio.sleep(delay_hours * 3600), in minutes of the loop's clock.
SleepMinutes(delay_hours) == delay_hours * 60

\* The clock runs until every timer that can exist has been due for a minute.
Horizon == MaxSchedTime + CLEANUP_DELAY_HOURS * 60 + 1

\* shutil.rmtree(user_dir) called whether or not the directory exists: it
\* raises on a missing one and the except arm logs the error.
RmtreeUnchecked(present, record_id) ==
  IF record_id \in present
  THEN [dirs |-> present \ {record_id}, outcome |-> "removed"]
  ELSE [dirs |-> present, outcome |-> "error"]

\* A cleanup that removes the directory of the user, with those of all records.
RmtreeUserDir(present, record_id) ==
  IF present # {}
  THEN [dirs |-> {}, outcome |-> "removed"]
  ELSE [dirs |-> present, outcome |-> "absent"]

\* "if user_dir.exists(): shutil.rmtree(user_dir)" on the record's directory.
rmtree_if_exists(present, record_id) ==
  IF record_id \in present
  THEN [dirs |-> present \ {record_id}, outcome |-> "removed"]
  ELSE [dirs |-> present, outcome |-> "absent"]

\* Output directories exist for some of the records (a job that failed at
\* routing never created its own); no cleanup task exists yet.
CleanupInit ==
  /\ services = discover_services({"instagram", "tiktok", "ytdlp"})
  /\ CoreInit
  /\ DiscoveryDone
  /\ now = 0
  /\ dirs \in SUBSET TaskIds
  /\ timers = {}
  /\ PackagerIdle

\* asyncio.create_task(self.cleanup_user_files(user_id, record_id, ...)) for
\* record j, and the new task's run up to its asyncio.sleep.
schedule_cleanup(j) ==
  /\ Alive
  /\ now <= MaxSchedTime
  /\ Cardinality(timers) < MaxCleanups
  /\ ~\E t \in timers : t.record_id = j /\ t.t0 = now
  /\ timers' = timers \cup
       {[record_id |-> j, t0 |-> now, due |-> now + SleepMinutes(CLEANUP_DELAY_HOURS),
         pc |-> "sleeping", outcome |-> "none", ran_at |-> -1]}
  /\ UNCHANGED <<task_vars, start, services, service_files, loaded, looked, now, dirs,
                 produced, metadata, sent, extra_vars>>

\* A minute passes.  While the process runs, the loop wakes a sleeper whose
\* time has come before another minute is over.
Tick ==
  /\ now < Horizon
  /\ Alive => \A t \in timers : t.pc = "sleeping" => now < t.due
  /\ now' = now + 1
  /\ UNCHANGED <<task_vars, start, services, service_files, loaded, looked, dirs, timers,
                 produced, metadata, sent, extra_vars>>

\* cleanup_user_files after its sleep: the directory is removed if it exists.
cleanup_user_files(t) ==
  /\ Alive
  /\ t.pc = "sleeping"
  /\ now >= t.due
  /\ LET r == rmtree_if_exists(dirs, t.record_id)
     IN /\ dirs' = r.dirs
        /\ timers' = (timers \ {t}) \cup
             {[t EXCEPT !.pc = "done", !.outcome = r.outcome, !.ran_at = now]}
  /\ UNCHANGED <<task_vars, start, services, service_files, loaded, looked, now,
                 produced, metadata, sent, extra_vars>>

\* The process ends (asyncio.run returns): the sleeping cleanup tasks are
\* cancelled and their directories stay.
process_exit ==
  /\ Alive
  /\ start' = [pc |-> "exited", wake |-> "none"]
  /\ timers' = {[t EXCEPT !.pc = IF @ = "sleeping" THEN "lost" ELSE @] : t \in timers}
  /\ UNCHANGED <<task_vars, services, service_files, loaded, looked, now, dirs,
                 produced, metadata, sent, extra_vars>>

CleanupNext ==
  \/ \E j \in TaskIds : schedule_cleanup(j)
  \/ Tick
  \/ \E t \in timers : cleanup_user_files(t)
  \/ process_exit

CleanupSpec == CleanupInit /\ [][CleanupNext]_vars

\* ------------------------------------------------------------------ packager
\* Files in one result['files'] list.
MaxFiles == 3

\* The paths a Fetcher can report (TikTokService lists the output directory
\* recursively, so two files of one name can sit in different directories),
\* each on disk or not when the list is delivered.  A name is a stem and the
\* extension it ends with.
ProducedPaths ==
  { [dir |-> <<"out">>, name |-> [stem |-> "a", ext |-> ".jpg"]],
    [dir |-> <<"out">>, name |-> [stem |-> "b", ext |-> ".mp4"]],
    [dir |-> <<"out", "sub">>, name |-> [stem |-> "a", ext |-> ".jpg"]] }
ProducedFiles ==
  {[dir |-> f.dir, name |-> f.name, exists |-> e] : f \in ProducedPaths, e \in BOOLEAN}
FileListsUpTo(n) == UNION {[1..k -> ProducedFiles] : k \in 0..n}

\* The extensions a single delivered file is tried with.
SingleExts == {".mp4", ".MKV", ".Jpg", ".webp", ".txt", ".MP3", ""}
SingleFiles ==
  {[dir |-> <<"out">>, name |-> [stem |-> "c", ext |-> x], exists |-> e] :
     x \in SingleExts, e \in BOOLEAN}

\* The metadata of a download result: a key is missing, empty or filled.
MetaTitles == {"<missing>", "", "Some title"}
MetaCaptions == {"<missing>", "", "Some caption"}
Metadatas == [title : MetaTitles, caption : MetaCaptions]

\* str.lower() on the extensions above.
NoLower(ext) == ext
lower(ext) ==
  CASE ext = ".MKV" -> ".mkv"
    [] ext = ".Jpg" -> ".jpg"
    [] ext = ".MP3" -> ".mp3"
    [] OTHER -> ext

VIDEO_EXTS == {".mp4", ".avi", ".mov", ".mkv"}
IMAGE_EXTS == {".jpg", ".jpeg", ".png", ".gif", ".webp"}

\* The send_* call chosen by the extension of a single file.
send_kind(name) ==
  IF lower(name.ext) \in VIDEO_EXTS THEN "send_video"
  ELSE IF lower(name.ext) \in IMAGE_EXTS THEN "send_photo"
  ELSE "send_document"

\* metadata.get(key): None for a missing key; "or" skips None and "".
Falsy(v) == v \in {"<missing>", ""}

\* caption = metadata.get('title') or metadata.get('caption') or 'Media Downloaded'
caption_of(md) ==
  IF ~Falsy(md.title) THEN md.title
  ELSE IF ~Falsy(md.caption) THEN md.caption
  ELSE "Media Downloaded"

\* metadata.get('title', 'Media files') in the caption of the archive.
archive_caption(md) == IF md.title = "<missing>" THEN "Media files" ELSE md.title

\* The arm of send_files_to_user a files list takes.
BranchEmptyArchives(files) == IF Len(files) = 1 THEN "single" ELSE "archive"
branch(files) ==
  IF Len(files) = 0 THEN "empty"
  ELSE IF Len(files) > 1 THEN "archive"
  ELSE "single"

\* The entry names of the zip archive: zf.write(file_path, Path(file_path).name)
\* for each file of the list that exists, in order.
archive_entries(files) ==
  LET there == SelectSeq(files, LAMBDA f : f.exists)
  IN [k \in 1..Len(there) |-> there[k].name]

PackagerInit ==
  /\ services = discover_services({"instagram", "tiktok", "ytdlp"})
  /\ CoreInit
  /\ DiscoveryDone
  /\ CleanupIdle
  /\ produced \in FileListsUpTo(MaxFiles) \cup {<<f>> : f \in SingleFiles}
  /\ metadata \in Metadatas
  /\ sent = NoSend

\* send_files_to_user with an empty list: the requester is told so.
send_no_files ==
  /\ sent = NoSend
  /\ branch(produced) = "empty"
  /\ sent' = [kind |-> "notice", entries |-> <<>>, caption |-> "",
              calls |-> <<"send_message">>]
  /\ UNCHANGED <<task_vars, start, services, service_files, loaded, looked, now, dirs,
                 timers, produced, metadata,
                 extra_vars>>

\* send_files_to_user with more than one file: one zip archive is written,
\* sent as a document and unlinked.
send_archive ==
  /\ sent = NoSend
  /\ branch(produced) = "archive"
  /\ sent' = [kind |-> "archive", entries |-> archive_entries(produced),
              caption |-> archive_caption(metadata),
              calls |-> <<"zip", "send_document", "unlink">>]
  /\ UNCHANGED <<task_vars, start, services, service_files, loaded, looked, now, dirs,
                 timers, produced, metadata,
                 extra_vars>>

\* send_files_to_user with one file: it is sent by its kind if it exists.
send_single ==
  /\ sent = NoSend
  /\ branch(produced) = "single"
  /\ sent' = IF produced[1].exists
             THEN [kind |-> send_kind(produced[1].name), entries |-> <<produced[1].name>>,
                   caption |-> caption_of(metadata),
                   calls |-> <<send_kind(produced[1].name)>>]
             ELSE [kind |-> "nothing", entries |-> <<>>, caption |-> "", calls |-> <<>>]
  /\ UNCHANGED <<task_vars, start, services, service_files, loaded, looked, now, dirs,
                 timers, produced, metadata,
                 extra_vars>>

PackagerNext ==
  \/ send_no_files
  \/ send_archive
  \/ send_single

PackagerSpec == PackagerInit /\ [][PackagerNext]_vars

\* ---------------------------------------------------------------------------
\* The classifier on its own: process_download_request handles one message
\* whose tokens are drawn from urls of every platform, urls that match no
\* pattern, and words.
\* ---------------------------------------------------------------------------
MaxTokens == 2

Url(scheme, www, host, path) == [scheme |-> scheme, www |-> www, host |-> host, path |-> path]
Tokens ==
  { TikTokUrl, YouTubeUrl, DouyinUrl, InstagramUrl, UnknownUrl,
    Url("https://", TRUE, "tiktok.com", <<"about">>),
    Url("", FALSE, "tiktok.com", <<"@x", "video", "123">>),
    Url("http://", FALSE, "TikTok.com", <<"t", "abc">>),
    Url("https://", TRUE, "youtu.be", <<"abc">>),
    Url("https://", FALSE, "youtube.com", <<"watch?v=abc">>),
    Url("http://", FALSE, "x.com", <<"user", "status", "123">>),
    Url("https://", FALSE, "facebook.com", <<"page", "videos", "123">>),
    Url("https://", FALSE, "facebook.com", <<"videos", "123">>),
    Url("", FALSE, "hello", <<>>) }
Texts == UNION {[1..k -> Tokens] : k \in 0..MaxTokens}

HandlerInit ==
  /\ services = discover_services({"instagram", "tiktok", "ytdlp"})
  /\ CoreInit
  /\ DiscoveryDone
  /\ CleanupIdle
  /\ PackagerIdle

HandlerNext == \E text \in Texts : requests = <<>> /\ Request(text)

HandlerSpec == HandlerInit /\ [][HandlerNext]_vars

\* ---------------------------------------------------------------------------
\* The handler with an admin who bans and unbans the user: messages arrive
\* while tasks of the user may already be in the queue.
\* ---------------------------------------------------------------------------
\* /ban and /unban commands and refused messages over one run.
MaxBanEvents == 3

BanEvent(kind) == [kind |-> kind, rows |-> Len(ledger)]

\* DatabaseService.ban_user(user_id, banned) on the row of the user:
\* user.is_banned = banned, and nothing else.
ban_user(value) ==
  /\ Alive
  /\ Len(ban_log) < MaxBanEvents
  /\ banned' = value
  /\ ban_log' = Append(ban_log, BanEvent(IF value THEN "ban" ELSE "unban"))
  /\ UNCHANGED <<task_vars, start, services, service_files, loaded, looked, now, dirs,
                 timers, produced, metadata, sent, fetch_sessions, service_session>>

\* AdminHandler.handle_ban_command and handle_unban_command.
handle_ban_command == ban_user(TRUE)
handle_unban_command == ban_user(FALSE)

\* process_download_request for a banned user: the reply "You are banned from
\* using this bot." and return.
RequestRefused ==
  /\ Alive
  /\ is_user_banned(banned)
  /\ Len(ban_log) < MaxBanEvents
  /\ ban_log' = Append(ban_log, BanEvent("refused"))
  /\ UNCHANGED <<task_vars, start, services, service_files, loaded, looked, now, dirs,
                 timers, produced, metadata, sent, fetch_sessions, service_session, banned>>

BanInit ==
  /\ services = discover_services({"instagram", "tiktok", "ytdlp"})
  /\ CoreInit
  /\ DiscoveryDone
  /\ CleanupIdle
  /\ PackagerIdle

BanNext ==
  \/ \E text \in Messages : Request(text)
  \/ RequestRefused
  \/ handle_ban_command
  \/ handle_unban_command

BanSpec == BanInit /\ [][BanNext]_vars

\* ---------------------------------------------------------------------------
\* The "async with service" blocks of jobs that run at the same time, as the
\* default of five slots lets them: each block enters one of the registered
\* service instances, awaits its download and leaves.
\* ---------------------------------------------------------------------------
\* The default of config.MAX_CONCURRENT_DOWNLOADS.
DEFAULT_MAX_CONCURRENT_DOWNLOADS == 5

Blocks == 1..MaxBlocks
InBlock == {b \in Blocks : fetch_sessions[b].pc = "fetching"}

\* BaseDownloader.__aenter__ of instance svc, entered by block b:
\* self.session = aiohttp.ClientSession(...), whatever it held before; then
\* service.download(...) is awaited.  The new session is named by its block.
aenter(b, svc) ==
  /\ fetch_sessions[b].pc = "idle"
  /\ Cardinality(InBlock) < DEFAULT_MAX_CONCURRENT_DOWNLOADS
  /\ fetch_sessions' = [fetch_sessions EXCEPT
       ![b] = [pc |-> "fetching", service |-> svc, state |-> "open", closes |-> 0]]
  /\ service_session' = [service_session EXCEPT ![svc] = b]
  /\ UNCHANGED <<task_vars, start, services, service_files, loaded, looked, now, dirs,
                 timers, produced, metadata, sent, banned, ban_log>>

\* The download of block b has returned or raised: BaseDownloader.__aexit__
\* closes the session self.session holds now ("if self.session" is true of
\* any session object, open or closed).
aexit(b) ==
  LET svc == fetch_sessions[b].service
      cur == service_session[svc]
      left == [fetch_sessions EXCEPT ![b].pc = "done"]
  IN /\ fetch_sessions[b].pc = "fetching"
     /\ fetch_sessions' =
          IF cur = 0 THEN left
          ELSE [left EXCEPT ![cur].state = "closed", ![cur].closes = @ + 1]
     /\ UNCHANGED <<task_vars, start, services, service_files, loaded, looked, now, dirs,
                    timers, produced, metadata, sent, service_session, banned, ban_log>>

SessionInit ==
  /\ services = discover_services({"instagram", "tiktok", "ytdlp"})
  /\ CoreInit
  /\ DiscoveryDone
  /\ CleanupIdle
  /\ PackagerIdle

SessionNext ==
  \/ \E b \in Blocks : \E svc \in DOMAIN service_session : aenter(b, svc)
  \/ \E b \in Blocks : aexit(b)

SessionSpec == SessionInit /\ [][SessionNext]_vars

\* --------------------------------------------------------------------- claims
Status(t) == ledger[t].status
Terminal(t) == t \in DOMAIN ledger /\ Status(t) \in {"completed", "failed"}
Ended(j) == jobs[j].pc = "done"

\* Jobs inside "async with self.download_semaphore".
Executing == {j \in TaskIds : jobs[j].pc \in SlotPcs}
Fetching == {j \in TaskIds : jobs[j].pc = "fetching"}

\* C1: at every state at most MAX_CONCURRENT_DOWNLOADS jobs are executing
\* (hold a slot), so at most that many Fetcher invocations are in progress:
\* with the bound at 1, a second job's fetch begins only after the first
\* job has left its slot.
C1_BoundedConcurrency ==
  /\ Cardinality(Executing) <= MAX_CONCURRENT_DOWNLOADS
  /\ Cardinality(Fetching) <= MAX_CONCURRENT_DOWNLOADS
  /\ sem_value >= 0

\* A job is fetching while another one waits for the slot.
C1_Witness ==
  \E a, b \in TaskIds : jobs[a].pc = "fetching" /\ jobs[b].pc = "waiting"

\* C2 (as claimed): every task that was enqueued eventually has Ledger status
\* Completed or Failed.
C2_EveryTaskTerminates ==
  \A t \in TaskIds : (t \in DOMAIN ledger) ~> Terminal(t)

\* C2 (amended): unless a shutdown is signalled, every task that was enqueued
\* eventually has Ledger status Completed or Failed.  Stated for all enqueued
\* tasks at once: again and again either the signal is set or every row
\* created so far is Completed or Failed (rows are never removed, so each
\* task enqueued before such a moment is covered by it).
C2_TerminatesUnlessShutdown ==
  []<>(shutdown_event \/ \A t \in DOMAIN ledger : Terminal(t))

\* Both tasks of a run reached a final status and no shutdown was signalled.
C2_Witness ==
  /\ ~shutdown_event
  /\ Len(ledger) = MaxTasks
  /\ \A t \in DOMAIN ledger : Terminal(t) /\ Ended(t)

\* C3: a graceful shutdown cancels or abandons no job: no job ends cancelled,
\* and once the dispatcher has returned every job it started has finished.
C3_GracefulDrain ==
  /\ \A j \in TaskIds : jobs[j].pc # "cancelled"
  /\ worker.pc \in {"done", "cancelled"} => \A j \in TaskIds : ~Unfinished(j)

\* C4: a task's Ledger status only moves from Pending to Completed or Failed
\* and never changes once it is Completed or Failed.
C4_StatusMonotonic ==
  [][\A t \in DOMAIN ledger :
        Status(t) # "pending" => ledger'[t].status = Status(t)]_vars

\* C5: a task whose fetch succeeded and whose delivery raised keeps Ledger
\* status Completed, whatever becomes of the error notice.
C5_DeliveryFailureKeepsCompleted ==
  \A j \in TaskIds : hist[j].delivery = "raised" => Status(j) = "completed"

\* C6 (as claimed): no task is dequeued and no job started once the shutdown
\* signal is set.
C6_NoDequeueAfterShutdown == lateDeq = 0

\* C6 (amended): once the shutdown signal is set the dispatcher dequeues and
\* starts at most one more task, the one a put had already woken its pending
\* get() for; having tested the signal it dequeues nothing.
C6_AtMostOneLateDequeue ==
  /\ lateDeq <= 1
  /\ lateDeq = 1 => worker.pc \in {"drain", "done", "cancelled"}

\* A task was dequeued, and its job started, after the signal was set.
C6_Witness == lateDeq = 1 /\ \E j \in TaskIds : jobs[j].pc # "none"

RECURSIVE Flatten(_)
\* The (url, platform) pairs of a sequence of message texts, in order.
Flatten(texts) ==
  IF texts = <<>> THEN <<>> ELSE extract_urls(Head(texts)) \o Flatten(Tail(texts))

\* C7: tasks leave the queue in the order they were put on it, and the urls
\* of the messages handled are put on it in their order of occurrence.
C7_Fifo ==
  /\ deqOrder \o [k \in 1..Len(download_queue) |-> download_queue[k].record_id] = enqOrder
  /\ [k \in 1..Len(enqOrder) |-> ledger[enqOrder[k]].url]
       = [k \in 1..Len(Flatten(requests)) |-> Flatten(requests)[k].url]
  /\ \A k \in 1..Len(download_queue) :
       download_queue[k].url = ledger[download_queue[k].record_id].url

\* Both urls of one message were dequeued.
C7_Witness ==
  /\ requests = << <<TikTokUrl, YouTubeUrl>> >>
  /\ Len(deqOrder) = Len(enqOrder)
  /\ Len(deqOrder) > 1

\* C8: while the process runs, the handler's enqueue of a message is enabled
\* whatever the queue length and the number of free slots (the model stops
\* creating records after MaxTasks).
C8_EnqueueNeverBlocks ==
  \A text \in Messages :
    (Alive /\ Len(ledger) + Len(extract_urls(text)) <= MaxTasks) => ENABLED Request(text)

\* Every slot is held, and a further message can be enqueued.
C8_Witness ==
  /\ sem_value = 0
  /\ Len(ledger) < MaxTasks
  /\ ENABLED Request(<<TikTokUrl>>)

\* A message can be enqueued behind a task still waiting in the queue.
C8_WitnessQueued ==
  /\ download_queue # <<>>
  /\ Len(ledger) < MaxTasks
  /\ ENABLED Request(<<TikTokUrl>>)

LeavesOthersAlone(j) ==
  /\ \A k \in DOMAIN ledger \ {j} : ledger'[k] = ledger[k]
  /\ \A k \in TaskIds \ {j} :
       /\ hist'[k] = hist[k]
       /\ cleanup_tasks'[k] = cleanup_tasks[k]
       /\ \/ jobs'[k] = jobs[k]
          \/ jobs[k].pc = "waiting" /\ jobs'[k].pc = "granted"
  /\ download_queue' = download_queue
  /\ worker'.pc = worker.pc

C10_FetchFailureRecorded ==
  \A j \in TaskIds :
    (Ended(j) /\ hist[j].fetch = "fail") =>
      /\ Status(j) = "failed"
      /\ ledger[j].error_message = FetchError
      /\ hist[j].notified
      /\ cleanup_tasks[j] >= 1

\* C11 (as claimed): a job whose fetch raised ends like one whose fetch
\* returned a failure result: the task Failed with the exception's text
\* recorded, the requester notified, cleanup scheduled and no delivery
\* attempted.
C11_FetchExceptionNotified ==
  \A j \in TaskIds :
    (Ended(j) /\ hist[j].fetch = "raise") =>
      /\ Status(j) = "failed"
      /\ ledger[j].error_message = FetchExceptionText
      /\ hist[j].notified
      /\ cleanup_tasks[j] = 1
      /\ hist[j].delivery = "none"

\* C11 (amended): a job whose fetch raised ends with the task Failed, the
\* exception's text recorded, cleanup scheduled once and no delivery attempted;
\* the failure notice was sent to the requester, or its send raised and was
\* swallowed.
C11_FetchExceptionRecorded ==
  \A j \in TaskIds :
    (Ended(j) /\ hist[j].fetch = "raise") =>
      /\ Status(j) = "failed"
      /\ ledger[j].error_message = FetchExceptionText
      /\ hist[j].notified \/ "notify" \in hist[j].exc
      /\ cleanup_tasks[j] = 1
      /\ hist[j].delivery = "none"

\* A job whose fetch raised has ended with its failure notice sent.
C11_Witness ==
  \E j \in TaskIds :
    Ended(j) /\ hist[j].fetch = "raise" /\ hist[j].notified /\ Status(j) = "failed"

\* The task's platform has no registration and there is no generic fallback.
NoFetcher(j) ==
  /\ j \in DOMAIN ledger
  /\ ledger[j].platform \notin DOMAIN services
  /\ "generic" \notin DOMAIN services

\* C12: a task for which no Fetcher resolves never reaches the fetch or the
\* delivery, and once its job has run the task is Failed with the routing
\* error recorded.
C12_NoFetcherFailsDirectly ==
  \A j \in TaskIds :
    NoFetcher(j) =>
      /\ jobs[j].pc \notin {"fetching", "delivering", "deliverErrNotify", "notifyFail"}
      /\ hist[j].fetch = "none"
      /\ hist[j].delivery = "none"
      /\ jobs[j].pc \in {"excNotify", "done"} =>
            Status(j) = "failed" /\ ledger[j].error_message = RoutingErrorText

\* A job for a youtube url ended Failed in a registry without ytdlp.
C12_Witness ==
  \E j \in TaskIds :
    NoFetcher(j) /\ Ended(j) /\ "route" \in hist[j].exc /\ Status(j) = "failed"

\* C13: once a job's fetch has succeeded, the task's row holds the output
\* directory as file_path and, as file_size, the sum of the sizes of the
\* produced files that exist on disk, 0 included.
C13_CompletedPathAndSize ==
  \A j \in TaskIds :
    hist[j].fetch = "ok" =>
      /\ ledger[j].file_path = OutputDir(j)
      /\ ledger[j].file_size
           = total_size(FetchedFiles(get_service_for_url(services, ledger[j].url)))
      /\ ledger[j].completed_at

\* C14: a job that ran to its end on any path (delivery done, delivery failed,
\* fetch failed, routing failed, exception) has scheduled cleanup of its
\* task's directory exactly once; no job ever schedules it twice, none before
\* its task has ended; and once it is scheduled the task's row is not written
\* and no delivery or notice is attempted for it any more.
C14_CleanupScheduledOnceAtEnd ==
  /\ [](\A j \in TaskIds :
          /\ Ended(j) => cleanup_tasks[j] = 1
          /\ cleanup_tasks[j] <= 1
          /\ cleanup_tasks[j] = 1 => jobs[j].pc \in {"done", "cancelled"})
  /\ [][\A j \in TaskIds :
          cleanup_tasks[j] >= 1 =>
            /\ j \in DOMAIN ledger => ledger'[j] = ledger[j]
            /\ hist'[j] = hist[j]
            /\ cleanup_tasks'[j] = cleanup_tasks[j]]_vars

\* Both tasks have ended with cleanup scheduled, one after a routing failure
\* or an exception, the other after a delivery that raised.
C14_Witness ==
  \E a, b \in TaskIds :
    /\ Ended(a) /\ hist[a].exc \cap {"route", "mkdir", "fetch"} # {} /\ cleanup_tasks[a] = 1
    /\ Ended(b) /\ hist[b].delivery = "raised" /\ cleanup_tasks[b] = 1

\* The services registered so far.
Registered == {loaded[k] : k \in 1..Len(loaded)}

\* C17: a lookup returns the Fetcher registered under exactly the platform id
\* if there is one, otherwise the Fetcher registered as "generic" if there is
\* one, otherwise none.
C17_TwoTierLookup ==
  looked # NoLookup =>
    looked.service =
      IF looked.platform \in DOMAIN services THEN services[looked.platform]
      ELSE IF "generic" \in DOMAIN services THEN services["generic"]
      ELSE ""

\* An instagram url was served by the generic fallback, instagram itself
\* having no registration.
C17_Witness ==
  /\ looked.platform = "instagram"
  /\ "instagram" \notin DOMAIN services
  /\ looked.service = "ytdlp"

\* C18: every id of the registry is bound to a registered Fetcher instance,
\* never to another id; with tiktok registered (and no module of its own for
\* douyin) the id douyin is bound to, and a douyin url resolves to, the tiktok
\* instance; with tiktok the only service a youtube url resolves to none.
C18_AliasResolvesDirectly ==
  /\ \A p \in DOMAIN services : services[p] \in Registered
  /\ ("tiktok" \in Registered /\ "douyin" \notin Registered) =>
       /\ "douyin" \in DOMAIN services
       /\ services_get(services, "douyin") = services_get(services, "tiktok")
       /\ looked.platform = "douyin" => looked.service = "tiktok"
  /\ (Registered = {"tiktok"} /\ looked.platform = "youtube") => looked.service = ""

\* With tiktok the only service registered, a douyin url resolved to it.
C18_Witness ==
  /\ Registered = {"tiktok"}
  /\ looked.platform = "douyin"
  /\ looked.service = "tiktok"

\* C19: no registration replaces a binding the registry already holds.
C19_FirstRegisteredWins ==
  [][\A p \in DOMAIN services : p \in DOMAIN services' /\ services'[p] = services[p]]_vars

C16_CleanupIdempotent ==
  /\ [](/\ \A t \in timers : t.outcome # "error"
        /\ \A j \in TaskIds :
             /\ rmtree_if_exists(rmtree_if_exists(dirs, j).dirs, j).dirs
                  = rmtree_if_exists(dirs, j).dirs
             /\ j \notin dirs => rmtree_if_exists(dirs, j).outcome = "absent")
  /\ [][\A t \in timers' \ timers :
          (t.pc = "done" /\ t.record_id \notin dirs) =>
             dirs' = dirs /\ t.outcome = "absent"]_vars

\* Two cleanups of one record have run: the first removed the directory, the
\* second found it absent.
C16_Witness ==
  \E a, b \in timers :
    /\ a.record_id = b.record_id
    /\ a.outcome = "removed"
    /\ b.outcome = "absent"
    /\ b.ran_at > a.ran_at

\* C20: the archive sent for N > 1 produced files, all on disk, has exactly N
\* entries, each named by a base name of the list, and no two entries of one
\* name.
C20_ArchiveEntriesDistinct ==
  (sent.kind = "archive" /\ \A k \in 1..Len(produced) : produced[k].exists) =>
    /\ Len(sent.entries) = Len(produced)
    /\ \A k \in 1..Len(sent.entries) :
         sent.entries[k] \in {produced[i].name : i \in 1..Len(produced)}
    /\ \A a, b \in 1..Len(sent.entries) : sent.entries[a] = sent.entries[b] => a = b

\* C21: once send_files_to_user has returned or was left by an exception, the
\* temporary archive of the delivery is no longer on disk.
C21_TempArchiveRemoved ==
  \A j \in TaskIds :
    jobs[j].pc \in {"done", "excNotify", "cancelled"} => hist[j].zip # "exists"

\* C22: a delivery of an empty files list makes one call, the send_message of
\* the "No files were downloaded" notice: no archive is written and no file
\* or document is sent.
C22_EmptyListNoticeOnly ==
  (produced = <<>> /\ sent # NoSend) =>
    /\ sent.kind = "notice"
    /\ sent.calls = <<"send_message">>
    /\ sent.entries = <<>>
C22_Witness == produced = <<>> /\ sent.kind = "notice"

\* C23: a delivery of a list of one file makes exactly one send call, chosen
\* by the extension whatever its case (video, photo, else document), with
\* the title, else the caption, else "Media Downloaded" as its caption.
C23_SingleFileSentByKind ==
  (Len(produced) = 1 /\ sent # NoSend) =>
    /\ sent.calls =
         << CASE produced[1].name.ext \in {".mp4", ".MKV"} -> "send_video"
              [] produced[1].name.ext \in {".jpg", ".Jpg", ".webp"} -> "send_photo"
              [] OTHER -> "send_document" >>
    /\ sent.entries = <<produced[1].name>>
    /\ sent.caption =
         CASE metadata.title = "Some title" -> "Some title"
           [] metadata.title # "Some title" /\ metadata.caption = "Some caption" -> "Some caption"
           [] OTHER -> "Media Downloaded"

\* C23, with the file on disk: the part of the statement the code delivers.
C23_ExistingFileSentByKind ==
  (Len(produced) = 1 /\ produced[1].exists) => C23_SingleFileSentByKind

\* The priority order of the platforms, and whether one of a platform's
\* patterns matches a url.
PlatformOrder == <<"tiktok", "douyin", "instagram", "youtube", "twitter", "facebook">>
SetMatches(platform, url) ==
  \E i \in DOMAIN PATTERNS :
    /\ PATTERNS[i].platform = platform
    /\ \E k \in DOMAIN PATTERNS[i].patterns : Matches(PATTERNS[i].patterns[k], url)

\* C24: detect_platform of a url is the first platform, in the order tiktok,
\* douyin, instagram, youtube, twitter, facebook, one of whose patterns
\* matches the url, and none when no set matches; the rows written for one url
\* all carry the same platform.
C24_FirstMatchingPlatform ==
  /\ \A m \in DOMAIN requests : \A k \in DOMAIN requests[m] :
       LET url == requests[m][k]
           platform == detect_platform(url)
       IN /\ platform = "" <=> \A i \in DOMAIN PlatformOrder : ~SetMatches(PlatformOrder[i], url)
          /\ platform # "" =>
               \E i \in DOMAIN PlatformOrder :
                 /\ PlatformOrder[i] = platform
                 /\ SetMatches(platform, url)
                 /\ \A h \in 1..(i - 1) : ~SetMatches(PlatformOrder[h], url)
  /\ \A a, b \in DOMAIN ledger : ledger[a].url = ledger[b].url => ledger[a].platform = ledger[b].platform
  /\ \A a \in DOMAIN ledger : ledger[a].platform = detect_platform(ledger[a].url)
C24_Witness ==
  /\ requests = << <<Url("https://", TRUE, "tiktok.com", <<"about">>),
                     Url("http://", FALSE, "TikTok.com", <<"t", "abc">>)>> >>
  /\ Len(ledger) = 1
  /\ ledger[1].platform = "tiktok"

\* C25: the rows and queue entries made for a message are, in order of
\* occurrence and with duplicates, the tokens of the text that start with
\* http:// or https:// and classify, each with its platform; every other
\* token makes no row and no task.
C25_ExtractsClassifiedInOrder ==
  \A m \in DOMAIN requests :
    LET text == requests[m]
        kept == {k \in DOMAIN text :
                   /\ text[k].scheme \in {"http://", "https://"}
                   /\ \E i \in DOMAIN PlatformOrder : SetMatches(PlatformOrder[i], text[k])}
    IN /\ Len(ledger) = Cardinality(kept)
       /\ Len(download_queue) = Cardinality(kept)
       /\ \E f \in [DOMAIN ledger -> DOMAIN text] :
            /\ {f[r] : r \in DOMAIN ledger} = kept
            /\ \A a, b \in DOMAIN ledger : a < b => f[a] < f[b]
            /\ \A r \in DOMAIN ledger :
                 /\ ledger[r].url = text[f[r]]
                 /\ SetMatches(ledger[r].platform, text[f[r]])
                 /\ download_queue[r].url = text[f[r]]
                 /\ download_queue[r].platform = ledger[r].platform
C25_Witness ==
  /\ requests = << <<UnknownUrl, TikTokUrl>> >>
  /\ Len(ledger) = 1
  /\ ledger[1].url = TikTokUrl

\* C26: every task in the queue and every task a job was spawned for has a
\* Ledger row, and the row is pending as long as the task is queued or its
\* job has not entered the semaphore.
C26_PendingBeforeEnqueued ==
  /\ \A k \in DOMAIN download_queue :
       /\ download_queue[k].record_id \in DOMAIN ledger
       /\ Status(download_queue[k].record_id) = "pending"
  /\ \A j \in TaskIds :
       /\ jobs[j].pc # "none" => j \in DOMAIN ledger
       /\ jobs[j].pc \in {"new", "waiting", "granted"} => Status(j) = "pending"
C26_Witness ==
  /\ download_queue # <<>>
  /\ \E j \in TaskIds : jobs[j].pc = "fetching"

\* C27 as stated: the dispatcher takes a slot before it spawns a job, so the
\* handles in running_tasks are those of jobs holding a slot and are never
\* more than MAX_CONCURRENT_DOWNLOADS.
C27_DispatcherTakesSlot ==
  /\ running_tasks \subseteq Executing
  /\ Cardinality(running_tasks) <= MAX_CONCURRENT_DOWNLOADS

\* C27 amended: the dispatcher spawns a job for every task it dequeues and
\* the job takes the slot itself: the handles in running_tasks are those of
\* all unfinished jobs, the jobs holding a slot among them and never more than
\* MAX_CONCURRENT_DOWNLOADS, and the dispatcher is never left waiting in get()
\* with a task in the queue, whatever the number of free slots.
C27_JobsTakeSlot ==
  /\ Alive => running_tasks = {j \in TaskIds : Unfinished(j)}
  /\ Executing \subseteq {j \in TaskIds : Unfinished(j)}
  /\ Cardinality(Executing) <= MAX_CONCURRENT_DOWNLOADS
  /\ WorkerInGet => download_queue = <<>>
C27_Witness ==
  /\ Cardinality(running_tasks) > MAX_CONCURRENT_DOWNLOADS
  /\ sem_value = 0
  /\ sem_waiters # <<>>
  /\ WorkerInGet

\* C28: the free slots and the jobs holding a slot add up to
\* MAX_CONCURRENT_DOWNLOADS; a job that has ended, however it ended, has no
\* handle in running_tasks; and when no spawned job is unfinished,
\* running_tasks is empty and every slot is free.
C28_SlotsAndHandlesReleased ==
  /\ sem_value + Cardinality(Executing) = MAX_CONCURRENT_DOWNLOADS
  /\ \A j \in TaskIds : ~Unfinished(j) => j \notin running_tasks
  /\ (\A j \in TaskIds : ~Unfinished(j)) =>
       running_tasks = {} /\ sem_value = MAX_CONCURRENT_DOWNLOADS
C28_Witness ==
  /\ \E j \in TaskIds : jobs[j].pc = "done" /\ hist[j].fetch = "ok"
  /\ \E j \in TaskIds : jobs[j].pc = "done" /\ hist[j].exc # {}
  /\ \A j \in TaskIds : ~Unfinished(j)
  /\ running_tasks = {}
  /\ sem_value = MAX_CONCURRENT_DOWNLOADS

\* C29: a row that a job has written (completed or failed) is not written
\* again: no later step changes any of its fields, the error_message included.
C29_RowWrittenOnce ==
  [][\A t \in DOMAIN ledger : Status(t) # "pending" => ledger'[t] = ledger[t]]_vars

\* C30: no record id is enqueued or dequeued twice, a dequeued id is no longer
\* in the queue, a spawned job is never spawned anew, and a job enters its
\* fetch once, from the point where it holds the slot.
C30_Positions ==
  /\ \A a, b \in DOMAIN deqOrder : deqOrder[a] = deqOrder[b] => a = b
  /\ \A a, b \in DOMAIN enqOrder : enqOrder[a] = enqOrder[b] => a = b
  /\ \A k \in DOMAIN download_queue :
       /\ \A d \in DOMAIN deqOrder : deqOrder[d] # download_queue[k].record_id
       /\ jobs[download_queue[k].record_id].pc = "none"
  /\ \A j \in TaskIds : jobs[j].pc # "none" <=> \E d \in DOMAIN deqOrder : deqOrder[d] = j
C30_Steps ==
  \A j \in TaskIds :
    /\ jobs[j].pc # "none" /\ jobs'[j].pc \in {"none", "new"} => jobs[j].pc = "new"
    /\ jobs'[j].pc = "waiting" => jobs[j].pc \in {"new", "waiting"}
    /\ jobs'[j].pc = "granted" => jobs[j].pc \in {"waiting", "granted"}
    /\ jobs'[j].pc = "fetching" => jobs[j].pc \in {"new", "granted", "fetching"}
    /\ hist[j].fetch # "none" => jobs'[j].pc # "fetching"
    /\ hist[j].fetch # "none" => hist'[j].fetch = hist[j].fetch
C30_OneJobOneFetch == []C30_Positions /\ [][C30_Steps]_vars
C30_Witness ==
  /\ Len(deqOrder) = MaxTasks
  /\ \A j \in TaskIds : hist[j].fetch # "none"

\* C31: while a block awaits its download, the session it opened is open and
\* is the one its service instance holds; once the block is left, its
\* session has been closed, by one close.
C31_SessionScopedToInvocation ==
  \A b \in Blocks :
    /\ fetch_sessions[b].pc = "fetching" =>
         /\ fetch_sessions[b].state = "open"
         /\ service_session[fetch_sessions[b].service] = b
    /\ fetch_sessions[b].pc = "done" =>
         /\ fetch_sessions[b].state = "closed"
         /\ fetch_sessions[b].closes = 1

\* C32: distinct records have distinct output directories, and a step that
\* removes a directory is the cleanup of that directory's own record: every
\* other directory is as it was, and no step creates or removes one otherwise.
C32_Steps ==
  /\ dirs' \subseteq dirs
  /\ \A d \in dirs \ dirs' :
       /\ dirs' = dirs \ {d}
       /\ \E t \in timers : t.record_id = d /\ t.pc = "sleeping" /\ now >= t.due
       /\ \E t \in timers' : t.record_id = d /\ t.pc = "done" /\ t.outcome = "removed"
C32_DirectoriesIsolated ==
  /\ [](\A a, b \in TaskIds : a # b => OutputDir(a) # OutputDir(b))
  /\ [][C32_Steps]_vars
C32_Witness ==
  /\ \E t \in timers : t.pc = "done" /\ t.outcome = "removed" /\ t.record_id \notin dirs
  /\ dirs # {}

\* C33: no step changes self.services, so a url resolves to the same service
\* before and after every step, from start-up to the exit of the process.
C33_RegistryReadOnly ==
  [][/\ services' = services
     /\ \A url \in {TikTokUrl, YouTubeUrl} :
          get_service_for_url(services', url) = get_service_for_url(services, url)]_vars
C33_Witness ==
  /\ start.pc = "exited"
  /\ \E j \in TaskIds : hist[j].service # "" /\ hist[j].fetch = "ok"
  /\ \E j \in TaskIds : hist[j].service # "" /\ jobs[j].pc = "cancelled"

\* C34: every enqueued record is in exactly one place: in the queue, owned by
\* an unfinished job whose handle is in running_tasks, or finished (its job
\* done or cancelled); it is in the queue at most once.
InQueue(t) == \E k \in DOMAIN download_queue : download_queue[k].record_id = t
Owned(t) == Unfinished(t) /\ (Alive => t \in running_tasks)
Finished(t) == jobs[t].pc \in {"done", "cancelled"}
C34_NoTaskLostOrDuplicated ==
  /\ \A n \in DOMAIN enqOrder :
       LET t == enqOrder[n]
       IN /\ InQueue(t) \/ Owned(t) \/ Finished(t)
          /\ ~(InQueue(t) /\ Owned(t))
          /\ ~(InQueue(t) /\ Finished(t))
          /\ ~(Owned(t) /\ Finished(t))
  /\ \A a, b \in DOMAIN download_queue :
       download_queue[a].record_id = download_queue[b].record_id => a = b
  /\ \A t \in DOMAIN ledger : \E n \in DOMAIN enqOrder : enqOrder[n] = t
C34_Witness ==
  /\ InQueue(2)
  /\ Owned(1)
  /\ worker.pc \in {"done", "cancelled", "drain"}

Cancelled(j) == jobs[j].pc = "cancelled"
\* The job got into its try block: it resolved a service or raised in there.
EnteredTry(j) == hist[j].service # "" \/ hist[j].exc # {}

\* C36 as stated: every cancelled job, one cancelled while it waited for a
\* slot included, has created its cleanup task.
C36_CancelledJobSchedulesCleanup ==
  \A j \in TaskIds : Cancelled(j) => cleanup_tasks[j] >= 1

\* C36 amended: a cancelled job holds no slot, and the step that cancels it
\* writes no row: its row is pending if the job had written nothing, and the
\* rows of the records still in the queue are pending.  It has created its
\* one cleanup task if it was cancelled inside the try block (fetching,
\* delivering, notifying) and none if it was cancelled before (not yet run,
\* or waiting for a slot).
C36_State ==
  /\ sem_value + Cardinality(Executing) = MAX_CONCURRENT_DOWNLOADS
  /\ \A j \in TaskIds :
       Cancelled(j) =>
         /\ j \notin Executing
         /\ cleanup_tasks[j] = IF EnteredTry(j) THEN 1 ELSE 0
         /\ (hist[j].fetch = "none" /\ hist[j].exc = {}) => Status(j) = "pending"
  /\ ~Alive => \A k \in DOMAIN download_queue : Status(download_queue[k].record_id) = "pending"
C36_Steps ==
  (\E j \in TaskIds : Cancelled(j)' /\ ~Cancelled(j)) => ledger' = ledger
C36_CancelledJobWritesNothing == []C36_State /\ [][C36_Steps]_vars
C36_Witness ==
  /\ ~Alive
  /\ \E j \in TaskIds : Cancelled(j) /\ ~EnteredTry(j) /\ cleanup_tasks[j] = 0
  /\ \E j \in TaskIds : Cancelled(j) /\ EnteredTry(j) /\ cleanup_tasks[j] = 1

\* C37: the platform a job's url classifies to is the platform stored in its
\* task and in its row, and the service the job resolved is the one the
\* registry holds for that stored platform.
C37_RoutedByRecordedPlatform ==
  /\ \A k \in DOMAIN download_queue :
       LET item == download_queue[k]
       IN /\ item.platform = ledger[item.record_id].platform
          /\ detect_platform(item.url) = item.platform
  /\ \A j \in TaskIds :
       jobs[j].pc # "none" =>
         /\ jobs[j].url = ledger[j].url
         /\ jobs[j].platform = ledger[j].platform
         /\ detect_platform(jobs[j].url) = ledger[j].platform
         /\ hist[j].service # "" => hist[j].service = lookup(services, ledger[j].platform)
         /\ (hist[j].service = "" /\ "route" \in hist[j].exc) =>
              lookup(services, ledger[j].platform) = ""
C37_Witness ==
  /\ hist[1].service = "tiktok" /\ ledger[1].platform = "tiktok"
  /\ hist[2].service = "ytdlp" /\ ledger[2].platform = "youtube"

\* C38: while the user is banned no step adds a row or a queue entry; a step
\* that bans or unbans changes no row, no queue entry and no job; and a user
\* who is not banned (never banned, or unbanned again) can have a message
\* accepted.
C38_Steps ==
  /\ banned => ledger' = ledger /\ download_queue' = download_queue
  /\ banned' # banned =>
       /\ ledger' = ledger
       /\ download_queue' = download_queue
       /\ jobs' = jobs
       /\ running_tasks' = running_tasks
C38_State ==
  (~banned /\ Len(ledger) < MaxTasks) => ENABLED Request(<<TikTokUrl>>)
C39_SomethingAlwaysSent ==
  sent # NoSend =>
    \E k \in DOMAIN sent.calls :
      sent.calls[k] \in {"send_message", "send_document", "send_video", "send_photo"}

====
